---- MODULE Spec2Model ----
(***************************************************************************)
(* jerris: decoding of a Java class file (Class::from_file), the constant  *)
(* pool decoder (parse_constant) and the constant pool validator           *)
(* (validate_constant_pool).                                               *)
(*                                                                         *)
(* Numbers.  TLC's integers are 32-bit signed, so a u32 is carried as its  *)
(* two 16-bit halves <<hi, lo>> and a 64-bit value as four 16-bit limbs,   *)
(* most significant first.  u8 and u16 are plain integers.                 *)
(*                                                                         *)
(* The file.  The bytes of the file are an input.  They are drawn stage by *)
(* stage: every stage of from_file draws the bytes that lie ahead of the   *)
(* file position (a "chunk") and runs the stage's reads over them.  A      *)
(* chunk that runs out inside a read is a file that ends there.            *)
(***************************************************************************)
EXTENDS Integers, Sequences, FiniteSets, TLC

(***************************************************************************)
(* Bounds of the model.                                                    *)
(***************************************************************************)
\* largest constant_pool_count drawn for the file (the pool then holds one less)
MaxPoolCount == 3
\* largest interfaces_count / fields_count / methods_count / attributes_count
MaxCount == 1
\* largest attribute_length drawn for an attribute
MaxAttrLen == 1
\* number of entries of a pool handed to validate_constant_pool that differ
\* from BasePool
MaxEdits == 2
\* the stack frames the nesting of validate_constant is counted up to
MaxFrames == 6

(***************************************************************************)
(* Result values: Rust's Result, and a panic (the thread unwinds: the      *)
(* caller gets no value).                                                  *)
(***************************************************************************)
Ok(v) == [tag |-> "Ok", val |-> v]
Err(e) == [tag |-> "Err", err |-> e]
Panic(m) == [tag |-> "Panic", msg |-> m]
\* Ok(()) of a function returning Result<(), _>
OkUnit == [tag |-> "Ok"]

(***************************************************************************)
(* big_endian.rs                                                           *)
(***************************************************************************)
\* impl ParseBigEndian<u16> for [u8; 2]
parse_big_endian_u16(b) == (b[1] * 256) + b[2]

\* impl ParseBigEndian<u32> for [u8; 4], as the halves <<hi, lo>>
parse_big_endian_u32(b) == << (b[1] * 256) + b[2], (b[3] * 256) + b[4] >>

\* impl ParseBigEndian<u64> for [u8; 8], as the four limbs
parse_big_endian_u64(b) ==
    << (b[1] * 256) + b[2], (b[3] * 256) + b[4], (b[5] * 256) + b[6], (b[7] * 256) + b[8] >>

\* `(x as i16) << 8` of a u8: the shift moves bit 7 of x into the sign bit
shl8_i16(x) == IF x >= 128 THEN (x - 256) * 256 ELSE x * 256

\* `(x as i32) << 24` of a u8
shl24_i32(x) == IF x >= 128 THEN (x - 256) * 16777216 ELSE x * 16777216

\* a faulty signed variant: the value is not wrapped into the range of i16
parse_big_endian_i16_zero_extended(b) == (b[1] * 256) + b[2]

\* impl ParseBigEndian<i16> for [u8; 2].  The operands of `|` have no bit
\* in common, so the `|` is a sum.
parse_big_endian_i16(b) == shl8_i16(b[1]) + b[2]

\* impl ParseBigEndian<i32> for [u8; 4]
parse_big_endian_i32(b) == shl24_i32(b[1]) + (b[2] * 65536) + (b[3] * 256) + b[4]

\* impl ParseBigEndian<i64> for [u8; 8], as four limbs of which the most
\* significant one carries the sign
parse_big_endian_i64(b) ==
    << shl8_i16(b[1]) + b[2], (b[3] * 256) + b[4], (b[5] * 256) + b[6], (b[7] * 256) + b[8] >>

(***************************************************************************)
(* class.rs: the reader primitives.  A file is [buf, pos, eof]: the bytes   *)
(* that lie ahead, how many of them have been read, and whether a read     *)
(* asked for more bytes than the file had left.                            *)
(***************************************************************************)
File(buf) == [buf |-> buf, pos |-> 0, eof |-> FALSE]

\* File::read_exact: n bytes, or UnexpectedEof when fewer are left (the
\* bytes that were left are consumed)
read_exact(f, n) ==
    IF f.pos + n <= Len(f.buf)
    THEN [res |-> Ok(SubSeq(f.buf, f.pos + 1, f.pos + n)), f |-> [f EXCEPT !.pos = @ + n]]
    ELSE [res |-> Err("UnexpectedEof"), f |-> [f EXCEPT !.pos = Len(f.buf), !.eof = TRUE]]

\* io_err: std::io::Error -> ParseClassError::IoError
io_err(r) == IF r.res.tag = "Err" THEN [r EXCEPT !.res = Err("IoError")] ELSE r

\* `r?` followed by the rest of the function: an Err or a panic is returned as
\* it is, an Ok goes on with K
try(r, K(_)) == IF r.res.tag # "Ok" THEN r ELSE K(r)

\* the same file with another result
with(r, res) == [res |-> res, f |-> r.f]

\* read_n_dyn and read_n: vec![0; n] filled by read_exact
read_n_dyn(f, n) == io_err(read_exact(f, n))

read_u8(f) == try(io_err(read_exact(f, 1)), LAMBDA b : with(b, Ok(b.res.val[1])))

\* a faulty read_u16: a short read leaves the zero-filled buffer and goes on
read_u16_zero_fill(f) ==
    LET b == read_exact(f, 2)
    IN  IF b.res.tag = "Ok" THEN with(b, Ok(parse_big_endian_u16(b.res.val)))
        ELSE with(b, Ok(0))

read_u16(f) ==
    try(io_err(read_exact(f, 2)), LAMBDA b : with(b, Ok(parse_big_endian_u16(b.res.val))))

read_u32(f) ==
    try(io_err(read_exact(f, 4)), LAMBDA b : with(b, Ok(parse_big_endian_u32(b.res.val))))

(***************************************************************************)
(* `x - 1` on a u16.  With overflow checks (cargo's dev profile) 0 - 1     *)
(* panics; without them (the release profile) it wraps to 65535.           *)
(***************************************************************************)
sub_one_u16(x, overflow_checks) ==
    IF x > 0 THEN Ok(x - 1)
    ELSE IF overflow_checks THEN Panic("attempt to subtract with overflow")
    ELSE Ok(65535)

\* `class::read_u16(f)? - 1`: an index field of a constant
read_index(f, overflow_checks) ==
    try(read_u16(f), LAMBDA r : with(r, sub_one_u16(r.res.val, overflow_checks)))

(***************************************************************************)
(* constant_pool.rs: MethodReferenceKind and its FromPrimitive::from_u8    *)
(***************************************************************************)
MethodReferenceKind ==
    << "GetField", "GetStatic", "PutField", "PutStatic", "InvokeVirtual",
       "InvokeStatic", "InvokeSpecial", "NewInvokeSpecial", "InvokeInterface" >>

\* a faulty from_u8: the discriminants are taken to start at 0
from_u8_zero_based(b) ==
    IF b \in 0..(Len(MethodReferenceKind) - 1) THEN MethodReferenceKind[b + 1] ELSE "None"

\* "None" for a byte that is no discriminant
from_u8(b) == IF b \in 1..Len(MethodReferenceKind) THEN MethodReferenceKind[b] ELSE "None"

(***************************************************************************)
(* String::from_utf8: the bytes are well-formed UTF-8 (Unicode table 3-7). *)
(* A String is kept as its bytes.                                          *)
(***************************************************************************)
Cont(b) == b \in 128..191

RECURSIVE utf8_valid(_)
utf8_valid(b) ==
    IF b = <<>> THEN TRUE
    ELSE LET n == Len(b)
             b1 == b[1]
             rest(k) == SubSeq(b, k + 1, n)
         IN  IF b1 <= 127 THEN utf8_valid(rest(1))
             ELSE IF b1 \in 194..223
                  THEN n >= 2 /\ Cont(b[2]) /\ utf8_valid(rest(2))
             ELSE IF b1 \in 224..239
                  THEN /\ n >= 3
                       /\ b[2] \in (IF b1 = 224 THEN 160..191 ELSE IF b1 = 237 THEN 128..159 ELSE 128..191)
                       /\ Cont(b[3])
                       /\ utf8_valid(rest(3))
             ELSE IF b1 \in 240..244
                  THEN /\ n >= 4
                       /\ b[2] \in (IF b1 = 240 THEN 144..191 ELSE IF b1 = 244 THEN 128..143 ELSE 128..191)
                       /\ Cont(b[3])
                       /\ Cont(b[4])
                       /\ utf8_valid(rest(4))
             ELSE FALSE

from_utf8(bytes) == IF utf8_valid(bytes) THEN Ok(bytes) ELSE Err("FromUtf8Error")

(***************************************************************************)
(* constant_pool.rs: parse_constant.  The value is [res, f]: the Result    *)
(* (or the panic) and the file afterwards.                                 *)
(***************************************************************************)
\* `x as i32` of a u32 <<hi, lo>>: the two's-complement reading
as_i32(w) == IF w[1] >= 32768 THEN ((w[1] - 65536) * 65536) + w[2] ELSE (w[1] * 65536) + w[2]

\* `(high << 32) | low` of two u32: the four 16-bit limbs of the u64
shl32_or(high, low) == high \o low

\* tag 1
parse_utf8(f) ==
    try(read_u16(f), LAMBDA len :
    try(read_n_dyn(len.f, len.res.val), LAMBDA bytes :
        IF from_utf8(bytes.res.val).tag # "Ok"
        THEN with(bytes, Err("InvalidUTF8Constant"))
        ELSE with(bytes, Ok([tag |-> "UTF8String", text |-> from_utf8(bytes.res.val).val]))))

\* tag 15
parse_method_handle(f, overflow_checks) ==
    try(read_u8(f), LAMBDA b :
        IF from_u8(b.res.val) = "None"
        THEN with(b, Err("InvalidMethodHandleReferenceKind"))
        ELSE try(read_index(b.f, overflow_checks), LAMBDA reference_index :
                 with(reference_index,
                      Ok([tag |-> "MethodHandle",
                          reference_kind |-> from_u8(b.res.val),
                          reference_index |-> reference_index.res.val]))))

\* tag 16
parse_method_type(f, overflow_checks) ==
    try(read_index(f, overflow_checks), LAMBDA i :
        with(i, Ok([tag |-> "MethodType", descriptor_index |-> i.res.val])))

\* tag 18
parse_invoke_dynamic(f, overflow_checks) ==
    try(read_index(f, overflow_checks), LAMBDA bootstrap_method_attr_index :
    try(read_index(bootstrap_method_attr_index.f, overflow_checks), LAMBDA name_and_type_index :
        with(name_and_type_index,
             Ok([tag |-> "InvokeDynamic",
                 bootstrap_method_attr_index |-> bootstrap_method_attr_index.res.val,
                 name_and_type_index |-> name_and_type_index.res.val]))))

\* tag 12
parse_name_and_type(f, overflow_checks) ==
    try(read_index(f, overflow_checks), LAMBDA name_index :
    try(read_index(name_index.f, overflow_checks), LAMBDA descriptor_index :
        with(descriptor_index,
             Ok([tag |-> "NameAndType", name_index |-> name_index.res.val,
                 descriptor_index |-> descriptor_index.res.val]))))

\* tag 3
parse_integer(f) ==
    try(read_u32(f), LAMBDA w : with(w, Ok([tag |-> "Integer", value |-> as_i32(w.res.val)])))

\* tag 4: f32::from_bits keeps the bit pattern
parse_float(f) ==
    try(read_u32(f), LAMBDA w : with(w, Ok([tag |-> "Float", bits |-> w.res.val])))

\* tags 5 and 6 ("Long", "Double"): f64::from_bits keeps the bit pattern
parse_wide(f, variant) ==
    try(read_u32(f), LAMBDA high :
    try(read_u32(high.f), LAMBDA low :
        with(low, Ok([tag |-> variant, bits |-> shl32_or(high.res.val, low.res.val)]))))

\* tag 7
parse_class(f, overflow_checks) ==
    try(read_index(f, overflow_checks), LAMBDA i :
        with(i, Ok([tag |-> "Class", name_index |-> i.res.val])))

\* tag 8
parse_string(f, overflow_checks) ==
    try(read_index(f, overflow_checks), LAMBDA i :
        with(i, Ok([tag |-> "String", string_index |-> i.res.val])))

\* tags 9, 10 and 11 ("Field", "Method", "InterfaceMethod")
parse_member_ref(f, overflow_checks, variant) ==
    try(read_index(f, overflow_checks), LAMBDA class_index :
    try(read_index(class_index.f, overflow_checks), LAMBDA name_and_type_index :
        with(name_and_type_index,
             Ok([tag |-> variant, class_index |-> class_index.res.val,
                 name_and_type_index |-> name_and_type_index.res.val]))))

\* the tags parse_constant has an arm for
KnownTags == {1, 3, 4, 5, 6, 7, 8, 9, 10, 11, 12, 15, 16, 18}

\* `match tag { .. }`
parse_constant_arm(tag, f, overflow_checks) ==
    CASE tag = 1 -> parse_utf8(f)
      [] tag = 15 -> parse_method_handle(f, overflow_checks)
      [] tag = 16 -> parse_method_type(f, overflow_checks)
      [] tag = 18 -> parse_invoke_dynamic(f, overflow_checks)
      [] tag = 12 -> parse_name_and_type(f, overflow_checks)
      [] tag = 3 -> parse_integer(f)
      [] tag = 4 -> parse_float(f)
      [] tag = 5 -> parse_wide(f, "Long")
      [] tag = 6 -> parse_wide(f, "Double")
      [] tag = 7 -> parse_class(f, overflow_checks)
      [] tag = 8 -> parse_string(f, overflow_checks)
      [] tag = 9 -> parse_member_ref(f, overflow_checks, "Field")
      [] tag = 10 -> parse_member_ref(f, overflow_checks, "Method")
      [] tag = 11 -> parse_member_ref(f, overflow_checks, "InterfaceMethod")
      \* `_ => todo!()`
      [] OTHER -> [res |-> Panic("not yet implemented"), f |-> f]

parse_constant(f, overflow_checks) ==
    try(read_u8(f), LAMBDA tag : parse_constant_arm(tag.res.val, tag.f, overflow_checks))

\* a faulty index: the position is taken as 1-based
index_one_based(pool, i) ==
    IF i >= 1 /\ i <= Len(pool) THEN Ok(pool[i]) ELSE Panic("index out of bounds")

(***************************************************************************)
(* constant_pool.rs: validate_constant and validate_constant_pool.  A pool *)
(* is a sequence of constants; the index fields are 0-based, so index i is *)
(* pool[i + 1] here.  The value is OkUnit, Err(sub-error) or a panic.      *)
(***************************************************************************)
\* `&pool[i as usize]`: a slice index panics past the end
index(pool, i) ==
    IF i < Len(pool) THEN Ok(pool[i + 1]) ELSE Panic("index out of bounds")

\* matches!(constant, Constant::<variant>{..})
matches(constant, variant) == constant.tag = variant

\* a faulty is_init: only the first five bytes are compared
is_init_prefix(name) ==
    Len(name) >= 5 /\ SubSeq(name, 1, 5) = << 60, 105, 110, 105, 116 >>

\* `&**name == "<init>"`
is_init(name) == name = << 60, 105, 110, 105, 116, 62 >>

\* the reference kinds of each arm of `match reference_kind`
FieldKinds == {"GetField", "GetStatic", "PutField", "PutStatic"}
MethodKinds == {"InvokeSpecial", "InvokeVirtual", "InvokeStatic"}

RECURSIVE validate_constant(_, _)

\* a faulty check_referent: an entry of another variant is passed over
check_referent_lenient(pool, i, variant, error) ==
    LET referent == index(pool, i)
    IN  IF referent.tag = "Panic" THEN referent
        ELSE IF referent.val.tag = variant THEN validate_constant(referent.val, pool)
        ELSE [tag |-> "Ok"]

\* One relation of an arm: the entry at `i` must be of `variant`, and is
\* then validated itself; otherwise the arm's error.
check_referent(pool, i, variant, error) ==
    LET referent == index(pool, i)
    IN  IF referent.tag = "Panic" THEN referent
        ELSE IF matches(referent.val, variant) THEN validate_constant(referent.val, pool)
        ELSE Err(error)

\* The arms of Method, Field and InterfaceMethod: class_index, then
\* name_and_type_index
check_member(pool, constant, class_error, nat_error) ==
    LET class == check_referent(pool, constant.class_index, "Class", class_error)
    IN  IF class.tag # "Ok" THEN class
        ELSE check_referent(pool, constant.name_and_type_index, "NameAndType", nat_error)

\* The NewInvokeSpecial arm, after the Method it refers to validated: the
\* name reached through name_and_type_index and name_index
check_diamond_init(pool, method) ==
    LET name_and_type == index(pool, method.name_and_type_index)
    IN  IF name_and_type.tag = "Panic" THEN name_and_type
        ELSE IF ~matches(name_and_type.val, "NameAndType")
        THEN Panic("internal error: entered unreachable code")
        ELSE LET name == index(pool, name_and_type.val.name_index)
             IN  IF name.tag = "Panic" THEN name
                 ELSE IF ~matches(name.val, "UTF8String")
                 THEN Panic("internal error: entered unreachable code")
                 ELSE IF is_init(name.val.text) THEN OkUnit
                 ELSE Err("InvalidMethodHandle")

validate_method_handle(pool, constant) ==
    LET kind == constant.reference_kind
        i == constant.reference_index
    IN  CASE kind \in FieldKinds -> check_referent(pool, i, "Field", "InvalidMethodHandle")
          [] kind \in MethodKinds -> check_referent(pool, i, "Method", "InvalidMethodHandle")
          [] kind = "InvokeInterface" ->
                check_referent(pool, i, "InterfaceMethod", "InvalidMethodHandle")
          [] kind = "NewInvokeSpecial" ->
                LET method == check_referent(pool, i, "Method", "InvalidMethodHandle")
                IN  IF method.tag # "Ok" THEN method
                    ELSE check_diamond_init(pool, pool[i + 1])

validate_constant(constant, pool) ==
    CASE constant.tag = "Class" ->
            check_referent(pool, constant.name_index, "UTF8String", "ClassWithInvalidNameIndex")
      [] constant.tag = "Method" ->
            check_member(pool, constant, "MethodWithInvalidClassIndex",
                         "MethodWithInvalidNameAndTypeIndex")
      [] constant.tag = "Field" ->
            check_member(pool, constant, "FieldWithInvalidClassIndex",
                         "FieldWithInvalidNameAndTypeIndex")
      [] constant.tag = "InterfaceMethod" ->
            check_member(pool, constant, "InterfaceMethodWithInvalidClassIndex",
                         "InterfaceMethodWithInvalidNameAndTypeIndex")
      [] constant.tag \in {"Integer", "Long", "Float", "Double"} -> OkUnit
      [] constant.tag = "UTF8String" -> OkUnit
      [] constant.tag = "String" ->
            check_referent(pool, constant.string_index, "UTF8String",
                           "StringWithInvalidUTF8Index")
      [] constant.tag = "NameAndType" ->
            LET name == check_referent(pool, constant.name_index, "UTF8String",
                                       "NameAndTypeWithInvalidNameIndex")
            IN  IF name.tag # "Ok" THEN name
                ELSE check_referent(pool, constant.descriptor_index, "UTF8String",
                                    "NameAndTypeWithInvalidDescriptorIndex")
      [] constant.tag = "InvokeDynamic" ->
            check_referent(pool, constant.name_and_type_index, "NameAndType",
                           "InvokeDynamicWithInvalidNameAndType")
      [] constant.tag = "MethodType" ->
            check_referent(pool, constant.descriptor_index, "UTF8String",
                           "MethodTypeWithInvalidDescriptorIndex")
      [] constant.tag = "MethodHandle" -> validate_method_handle(pool, constant)

\* the entry at `i` when validate_constant calls itself on it: it is in the
\* pool and of `variant`
called(pool, i, variant) ==
    LET referent == index(pool, i)
    IN  IF referent.tag = "Ok" /\ matches(referent.val, variant) THEN {referent.val} ELSE {}

\* a faulty recursion: the referent is validated before its variant is looked at
callees_unchecked(constant, pool) ==
    {pool[constant[fld] + 1] :
        fld \in {f \in DOMAIN constant \cap
                        {"name_index", "class_index", "name_and_type_index", "string_index",
                         "descriptor_index", "reference_index"} :
                    constant[f] < Len(pool)}}

\* the entries validate_constant(constant, pool) calls itself on: the second
\* referent of an arm only when the first one validated
callees(constant, pool) ==
    CASE constant.tag \in {"Method", "Field", "InterfaceMethod"} ->
            LET class == called(pool, constant.class_index, "Class")
            IN  class \cup
                (IF class # {} /\ \A c \in class : validate_constant(c, pool).tag = "Ok"
                 THEN called(pool, constant.name_and_type_index, "NameAndType") ELSE {})
      [] constant.tag = "NameAndType" ->
            LET name == called(pool, constant.name_index, "UTF8String")
            IN  name \cup
                (IF name # {} THEN called(pool, constant.descriptor_index, "UTF8String") ELSE {})
      [] constant.tag = "Class" -> called(pool, constant.name_index, "UTF8String")
      [] constant.tag = "String" -> called(pool, constant.string_index, "UTF8String")
      [] constant.tag = "MethodType" -> called(pool, constant.descriptor_index, "UTF8String")
      [] constant.tag = "InvokeDynamic" ->
            called(pool, constant.name_and_type_index, "NameAndType")
      [] constant.tag = "MethodHandle" ->
            called(pool, constant.reference_index,
                   CASE constant.reference_kind \in FieldKinds -> "Field"
                     [] constant.reference_kind \in MethodKinds -> "Method"
                     [] constant.reference_kind = "InvokeInterface" -> "InterfaceMethod"
                     [] constant.reference_kind = "NewInvokeSpecial" -> "Method")
      [] OTHER -> {}

\* how many calls of validate_constant are nested when it is called on
\* `constant`, counted up to `fuel` stack frames
RECURSIVE depth(_, _, _)
depth(constant, pool, fuel) ==
    IF fuel = 0 THEN 0
    ELSE LET below == {depth(c, pool, fuel - 1) : c \in callees(constant, pool)}
         IN  1 + (IF below = {} THEN 0 ELSE CHOOSE d \in below : \A e \in below : e <= d)

\* `for constant in constant_pool { validate_constant(constant, pool)...? }`
\* from entry number k (1-based) on
RECURSIVE validate_from(_, _)
validate_from(pool, k) ==
    IF k > Len(pool) THEN OkUnit
    ELSE LET r == validate_constant(pool[k], pool)
         IN  IF r.tag # "Ok" THEN r ELSE validate_from(pool, k + 1)

\* Err(e) stands for ParseClassError::ConstantPoolValidationError(e)
validate_constant_pool(constant_pool) == validate_from(constant_pool, 1)

(***************************************************************************)
(* access_flags.rs (bitflags): from_bits is None when the word has a bit   *)
(* outside the flag vocabulary.  The vocabularies are those of the class   *)
(* file format (JVMS 4.1, 4.5, 4.6), as sets of bit positions.             *)
(***************************************************************************)
BitsOf(x) == {i \in 0..15 : (x \div (2 ^ i)) % 2 = 1}

ClassAccessFlags == {0, 4, 5, 9, 10, 12, 13, 14}
FieldAccessFlags == {0, 1, 2, 3, 4, 6, 7, 12, 14}
MethodAccessFlags == {0, 1, 2, 3, 4, 5, 6, 7, 8, 10, 11, 12}

from_bits(x, vocabulary) == IF BitsOf(x) \subseteq vocabulary THEN Ok(x) ELSE [tag |-> "None"]

(***************************************************************************)
(* attribute.rs                                                            *)
(***************************************************************************)
\* `attr_len as usize` of a u32 <<hi, lo>>
as_usize(w) == (w[1] * 65536) + w[2]

\* `for _ in 0..attr_len { info.push(read_u8(f)?) }`
RECURSIVE read_info(_, _, _)
read_info(f, left, info) ==
    IF left = 0 THEN [res |-> Ok(info), f |-> f]
    ELSE try(read_u8(f), LAMBDA b : read_info(b.f, left - 1, Append(info, b.res.val)))

parse_attribute(f) ==
    try(read_u16(f), LAMBDA attribute_name_index :
    try(read_u32(attribute_name_index.f), LAMBDA attr_len :
    try(read_info(attr_len.f, as_usize(attr_len.res.val), <<>>), LAMBDA info :
        with(info, Ok([attribute_name_index |-> attribute_name_index.res.val,
                       info |-> info.res.val])))))

\* `for _ in 0..len { attributes.push(parse_attribute(f)?) }`
RECURSIVE parse_attribute_loop(_, _, _)
parse_attribute_loop(f, left, attributes) ==
    IF left = 0 THEN [res |-> Ok(attributes), f |-> f]
    ELSE try(parse_attribute(f), LAMBDA attr :
             parse_attribute_loop(attr.f, left - 1, Append(attributes, attr.res.val)))

parse_attributes(f) ==
    try(read_u16(f), LAMBDA len : parse_attribute_loop(len.f, len.res.val, <<>>))

(***************************************************************************)
(* field.rs and method.rs: parse_field and parse_method have one shape and *)
(* differ in the flag vocabulary and in the error.                         *)
(***************************************************************************)
\* a faulty parse_member: the bits outside the vocabulary are masked away
parse_member_masking(f, vocabulary, error) ==
    try(read_u16(f), LAMBDA bits :
    try(read_u16(bits.f), LAMBDA name_index :
    try(read_u16(name_index.f), LAMBDA descriptor_index :
    try(parse_attributes(descriptor_index.f), LAMBDA attributes :
        with(attributes,
             Ok([access_flags |-> bits.res.val % 32768,
                 name_index |-> name_index.res.val,
                 descriptor_index |-> descriptor_index.res.val,
                 attributes |-> attributes.res.val]))))))

parse_member(f, vocabulary, error) ==
    try(read_u16(f), LAMBDA bits :
        IF from_bits(bits.res.val, vocabulary).tag = "None" THEN with(bits, Err(error))
        ELSE try(read_u16(bits.f), LAMBDA name_index :
             try(read_u16(name_index.f), LAMBDA descriptor_index :
             try(parse_attributes(descriptor_index.f), LAMBDA attributes :
                 with(attributes,
                      Ok([access_flags |-> from_bits(bits.res.val, vocabulary).val,
                          name_index |-> name_index.res.val,
                          descriptor_index |-> descriptor_index.res.val,
                          attributes |-> attributes.res.val]))))))

parse_field(f) == parse_member(f, FieldAccessFlags, "FieldParseError::InvalidAccessFlags")

parse_method(f) == parse_member(f, MethodAccessFlags, "MethodParseError::InvalidAccessFlags")

(***************************************************************************)
(* class.rs: the body of get_interfaces' loop, after class_index was read  *)
(***************************************************************************)
interface_name(constant_pool, class_index) ==
    LET class == index(constant_pool, class_index)
    IN  IF class.tag = "Panic" THEN class
        ELSE IF ~matches(class.val, "Class") THEN Panic("internal error: entered unreachable code")
        ELSE LET name == index(constant_pool, class.val.name_index)
             IN  IF name.tag = "Panic" THEN name
                 ELSE IF ~matches(name.val, "UTF8String")
                 THEN Panic("internal error: entered unreachable code")
                 ELSE Ok(name.val.text)

(***************************************************************************)
(* The inputs: the bytes drawn for each stage.                             *)
(***************************************************************************)
U16Bytes(v) == << v \div 256, v % 256 >>
U32Bytes(w) == U16Bytes(w[1]) \o U16Bytes(w[2])

\* every way the file can end inside (or right after) a chunk
Cuts(chunk) == {SubSeq(chunk, 1, k) : k \in 0..Len(chunk)}
Ahead(chunks) == UNION {Cuts(c) : c \in chunks}

\* all concatenations of n chunks of S
RECURSIVE Concats(_, _)
Concats(S, n) == IF n = 0 THEN {<<>>} ELSE {a \o r : a \in S, r \in Concats(S, n - 1)}

MagicInputs ==
    { <<202, 254, 186, 190>>, <<202, 254, 186, 191>>, <<202, 254, 0, 0>>,
      <<0, 0, 186, 190>>, <<190, 186, 254, 202>>, <<0, 0, 0, 0>> }
VersionInputs == { <<0, 0, 0, 63>> }
PoolCountInputs == 0..MaxPoolCount
\* raw (1-based) values of the index fields; 0 is no index
RawIndexInputs == 0..(MaxPoolCount - 1)
\* "<init>", "a", "<init" and two byte strings that are not UTF-8
TextInputs ==
    { <<60, 105, 110, 105, 116, 62>>, <<97>>, <<60, 105, 110, 105, 116>>, <<255>>, <<195>> }
ReferenceKindInputs == 0..10 \cup {255}
UnknownTagInputs == {0, 2, 13, 14, 17, 19, 20, 255}

\* the raw index fields drawn for parse_constant on its own: the largest u16 too
DecodeIndexInputs == RawIndexInputs \cup {65535}
ConstantInputs ==
    {<<1>> \o U16Bytes(Len(t)) \o t : t \in TextInputs}
    \cup {<<t>> \o U16Bytes(i) : t \in {7, 8, 16}, i \in DecodeIndexInputs}
    \cup {<<t>> \o U16Bytes(i) \o U16Bytes(j) :
            t \in {9, 10, 11, 12, 18}, i \in DecodeIndexInputs, j \in DecodeIndexInputs}
    \cup {<<15, k>> \o U16Bytes(i) : k \in ReferenceKindInputs, i \in DecodeIndexInputs}
    \cup {<<3, 255, 255, 255, 254>>, <<4, 63, 128, 0, 0>>,
          <<5, 128, 0, 0, 0, 0, 0, 0, 1>>, <<6, 63, 240, 0, 0, 0, 0, 0, 0>>}
    \cup {<<t>> : t \in UnknownTagInputs}

\* the constants drawn for a whole file: a part of ConstantInputs
FileConstantInputs ==
    {<<1, 0, 1, 97>>, <<1, 0, 1, 255>>,
     <<5, 128, 0, 0, 0, 0, 0, 0, 1>>, <<6, 63, 240, 0, 0, 0, 0, 0, 0>>,
     <<15, 0, 0, 1>>, <<2>>, <<19>>}
    \cup {<<7>> \o U16Bytes(i) : i \in RawIndexInputs}

\* class flag words: ACC_PUBLIC | ACC_SUPER, and two with a bit outside the vocabulary;
\* member flag words: ACC_PUBLIC | ACC_STATIC, and one with a bit outside the vocabulary
ClassFlagInputs == {33, 256, 32801}
MemberFlagInputs == {9, 32769}
\* the class indices drawn for the interfaces, for this_class and for super_class
ClassIndexInputs == 0..(MaxPoolCount - 1)
ThisClassInputs == {1, 2}
SuperClassInputs == {0}

\* an attribute: name index 1, a length n and n bytes 42
Attribute(n) == U16Bytes(1) \o U32Bytes(<<0, n>>) \o [i \in 1..n |-> 42]
AttributeInputs == {Attribute(0), Attribute(MaxAttrLen)}
\* the attribute list that ends the class
AttributesInputs ==
    UNION {{U16Bytes(n) \o a : a \in Concats(AttributeInputs, n)} : n \in 0..MaxCount}
\* a field: flags, name index 1, descriptor index 2, and no attribute or one
FieldInputs ==
    {U16Bytes(fl) \o U16Bytes(1) \o U16Bytes(2) \o a :
        fl \in MemberFlagInputs, a \in {U16Bytes(0), U16Bytes(1) \o Attribute(MaxAttrLen)}}
\* a method: flags, name index 1, descriptor index 2, no attribute
MethodInputs ==
    {U16Bytes(fl) \o U16Bytes(1) \o U16Bytes(2) \o U16Bytes(0) : fl \in MemberFlagInputs}
CountInputs == 0..MaxCount

(***************************************************************************)
(* The state: Class::from_file's position and locals, the file position,   *)
(* and what the caller gets.                                               *)
(***************************************************************************)
VARIABLES
    pc,                 \* the stage from_file is at; "call"/"returned" for a direct call of
                        \* validate_constant_pool
    overflow_checks,    \* the build panics on integer overflow (dev profile) or wraps (release)
    consumed,           \* bytes of the file consumed so far
    truncated,          \* a read asked for more bytes than the file had left
    chunk,              \* the bytes the last stage consumed
    magic,              \* the u32 read first
    java_version,
    constant_pool_count,\* the u16 read for the pool count
    constant_pool_len,
    tag,                \* the tag byte parse_constant read last
    constant_pool,
    validation,         \* what validate_constant_pool returned
    access_flags,
    this_class,
    super_class,
    interfaces_len,     \* get_interfaces' len
    interfaces,
    fields_len,         \* parse_fields' len
    fields,
    methods_len,        \* parse_methods' len
    methods,
    result              \* what the caller of from_file gets: nothing yet, Ok(Class), Err or a panic

io == <<consumed, truncated, chunk>>
header == <<magic, java_version, constant_pool_count, constant_pool_len>>
poolv == <<tag, constant_pool, validation>>
classv == <<access_flags, this_class, super_class>>
listv == <<interfaces_len, interfaces, fields_len, fields, methods_len, methods>>
vars == <<pc, overflow_checks, io, header, poolv, classv, listv, result>>

\* Class::MAGIC = 0xcafebabe
MAGIC == <<51966, 47806>>

None == [tag |-> "None"]

\* ParseClassError::ConstantPoolValidationError(sub)
ErrSub(e, sub) == [tag |-> "Err", err |-> e, sub |-> sub]

\* a faulty JavaVersion::parse: the major number is taken from the first two bytes
JavaVersion_parse_swapped(bytes) ==
    [minor |-> parse_big_endian_u16(<<bytes[3], bytes[4]>>),
     major |-> parse_big_endian_u16(<<bytes[1], bytes[2]>>)]

\* JavaVersion::parse
JavaVersion_parse(bytes) ==
    [minor |-> parse_big_endian_u16(<<bytes[1], bytes[2]>>),
     major |-> parse_big_endian_u16(<<bytes[3], bytes[4]>>)]

\* a faulty comparison: only the high half of the magic number is compared
magic_differs_high_half(m) == m[1] # 51966

\* `read_u32(&mut file)? != Self::MAGIC`
magic_differs(m) == m # MAGIC

Locals0 ==
    /\ consumed = 0
    /\ truncated = FALSE
    /\ chunk = <<>>
    /\ magic = <<0, 0>>
    /\ java_version = [minor |-> 0, major |-> 0]
    /\ constant_pool_count = 0
    /\ constant_pool_len = 0
    /\ tag = 0
    /\ validation = None
    /\ access_flags = 0
    /\ this_class = 0
    /\ super_class = 0
    /\ interfaces_len = 0
    /\ interfaces = <<>>
    /\ fields_len = 0
    /\ fields = <<>>
    /\ methods_len = 0
    /\ methods = <<>>
    /\ result = None

Init ==
    /\ pc = "open"
    /\ overflow_checks \in BOOLEAN
    /\ constant_pool = <<>>
    /\ Locals0

\* the stage's reads took the whole chunk, or the stage ended from_file
Whole(r, buf) == r.res.tag # "Ok" \/ r.f.pos = Len(buf)

\* the file position after the stage's reads
Advance(r) ==
    /\ consumed' = consumed + r.f.pos
    /\ truncated' = r.f.eof
    /\ chunk' = SubSeq(r.f.buf, 1, r.f.pos)

\* from_file has not returned
Running == result.tag = "None"

\* from_file returns (`?`, `return Err`, `Ok(Self {..})`) or panics: pc stays at
\* the stage it returned from
Return(r) ==
    /\ result' = r
    /\ pc' = pc

Goto(stage) ==
    /\ pc' = stage
    /\ result' = result

\* `io_err(File::open(path))?`
Open ==
    /\ pc = "open"
    /\ Running
    /\ \E opened \in BOOLEAN : IF opened THEN Goto("magic") ELSE Return(Err("IoError"))
    /\ UNCHANGED <<overflow_checks, io, header, poolv, classv, listv>>

ReadMagic ==
    /\ pc = "magic"
    /\ Running
    /\ \E buf \in Ahead(MagicInputs) :
         LET r == read_u32(File(buf))
         IN  /\ Whole(r, buf)
             /\ Advance(r)
             /\ IF r.res.tag # "Ok" THEN Return(r.res) /\ magic' = magic
                ELSE /\ magic' = r.res.val
                     /\ IF magic_differs(r.res.val) THEN Return(Err("InvalidMagicNumber"))
                        ELSE Goto("version")
    /\ UNCHANGED <<overflow_checks, java_version, constant_pool_count, constant_pool_len, poolv,
                   classv, listv>>

ReadVersion ==
    /\ pc = "version"
    /\ Running
    /\ \E buf \in Ahead(VersionInputs) :
         LET r == read_n_dyn(File(buf), 4)
         IN  /\ Whole(r, buf)
             /\ Advance(r)
             /\ IF r.res.tag # "Ok" THEN Return(r.res) /\ java_version' = java_version
                ELSE java_version' = JavaVersion_parse(r.res.val) /\ Goto("pool_count")
    /\ UNCHANGED <<overflow_checks, magic, constant_pool_count, constant_pool_len, poolv, classv,
                   listv>>

\* `let constant_pool_len: u16 = read_u16(&mut file)? - 1;`
ReadPoolCount ==
    /\ pc = "pool_count"
    /\ Running
    /\ \E buf \in Ahead({U16Bytes(n) : n \in PoolCountInputs}) :
         LET n == read_u16(File(buf))
             r == read_index(File(buf), overflow_checks)
         IN  /\ Whole(r, buf)
             /\ Advance(r)
             /\ constant_pool_count' = IF n.res.tag = "Ok" THEN n.res.val ELSE constant_pool_count
             /\ IF r.res.tag # "Ok" THEN Return(r.res) /\ constant_pool_len' = constant_pool_len
                ELSE constant_pool_len' = r.res.val /\ Goto("constants")
    /\ UNCHANGED <<overflow_checks, magic, java_version, poolv, classv, listv>>

\* one turn of `for _ in 0..constant_pool_len { constant_pool.push(parse_constant(..)?) }`
ParseConstant ==
    /\ pc = "constants"
    /\ Running
    /\ Len(constant_pool) < constant_pool_len
    /\ Len(constant_pool) < MaxPoolCount - 1
    /\ \E buf \in Ahead(FileConstantInputs) :
         LET r == parse_constant(File(buf), overflow_checks)
             t == read_u8(File(buf))
         IN  /\ Whole(r, buf)
             /\ Advance(r)
             /\ tag' = IF t.res.tag = "Ok" THEN t.res.val ELSE tag
             /\ IF r.res.tag # "Ok" THEN Return(r.res) /\ constant_pool' = constant_pool
                ELSE constant_pool' = Append(constant_pool, r.res.val) /\ Goto("constants")
    /\ UNCHANGED <<overflow_checks, header, validation, classv, listv>>

\* a faulty ValidatePool: the result of the validation is dropped
ValidatePool_unchecked ==
    /\ pc = "constants"
    /\ Running
    /\ Len(constant_pool) = constant_pool_len
    /\ validation' = validate_constant_pool(constant_pool)
    /\ Goto("access_flags")
    /\ UNCHANGED <<overflow_checks, io, header, tag, constant_pool, classv, listv>>

\* the loop is over: `constant_pool::validate_constant_pool(&constant_pool)?`
ValidatePool ==
    /\ pc = "constants"
    /\ Running
    /\ Len(constant_pool) = constant_pool_len
    /\ LET r == validate_constant_pool(constant_pool)
       IN  /\ validation' = r
           /\ CASE r.tag = "Ok" -> Goto("access_flags")
                [] r.tag = "Err" -> Return(ErrSub("ConstantPoolValidationError", r.err))
                [] r.tag = "Panic" -> Return(r)
    /\ UNCHANGED <<overflow_checks, io, header, tag, constant_pool, classv, listv>>

\* `ClassAccessFlags::from_bits(read_u16(&mut file)?).unwrap()`
ReadAccessFlags ==
    /\ pc = "access_flags"
    /\ Running
    /\ \E buf \in Ahead({U16Bytes(x) : x \in ClassFlagInputs}) :
         LET r == read_u16(File(buf))
         IN  /\ Whole(r, buf)
             /\ Advance(r)
             /\ IF r.res.tag # "Ok" THEN Return(r.res) /\ access_flags' = access_flags
                ELSE LET flags == from_bits(r.res.val, ClassAccessFlags)
                     IN  IF flags.tag = "None"
                         THEN /\ Return(Panic("called Option::unwrap() on a None value"))
                              /\ access_flags' = access_flags
                         ELSE access_flags' = flags.val /\ Goto("this_class")
    /\ UNCHANGED <<overflow_checks, header, poolv, this_class, super_class, listv>>

ReadThisClass ==
    /\ pc = "this_class"
    /\ Running
    /\ \E buf \in Ahead({U16Bytes(x) : x \in ThisClassInputs}) :
         LET r == read_u16(File(buf))
         IN  /\ Whole(r, buf)
             /\ Advance(r)
             /\ IF r.res.tag # "Ok" THEN Return(r.res) /\ this_class' = this_class
                ELSE this_class' = r.res.val /\ Goto("super_class")
    /\ UNCHANGED <<overflow_checks, header, poolv, access_flags, super_class, listv>>

ReadSuperClass ==
    /\ pc = "super_class"
    /\ Running
    /\ \E buf \in Ahead({U16Bytes(x) : x \in SuperClassInputs}) :
         LET r == read_u16(File(buf))
         IN  /\ Whole(r, buf)
             /\ Advance(r)
             /\ IF r.res.tag # "Ok" THEN Return(r.res) /\ super_class' = super_class
                ELSE super_class' = r.res.val /\ Goto("interfaces_count")
    /\ UNCHANGED <<overflow_checks, header, poolv, access_flags, this_class, listv>>

\* get_interfaces: `let len = read_u16(f)?;`
ReadInterfacesCount ==
    /\ pc = "interfaces_count"
    /\ Running
    /\ \E buf \in Ahead({U16Bytes(x) : x \in CountInputs}) :
         LET r == read_u16(File(buf))
         IN  /\ Whole(r, buf)
             /\ Advance(r)
             /\ IF r.res.tag # "Ok" THEN Return(r.res) /\ interfaces_len' = interfaces_len
                ELSE interfaces_len' = r.res.val /\ Goto("interfaces")
    /\ UNCHANGED <<overflow_checks, header, poolv, classv, interfaces, fields_len, fields,
                   methods_len, methods>>

\* get_interfaces: one turn of `for _ in 0..len`
ReadInterface ==
    /\ pc = "interfaces"
    /\ Running
    /\ Len(interfaces) < interfaces_len
    /\ \E buf \in Ahead({U16Bytes(x) : x \in ClassIndexInputs}) :
         LET r == read_u16(File(buf))
         IN  /\ Whole(r, buf)
             /\ Advance(r)
             /\ IF r.res.tag # "Ok" THEN Return(r.res) /\ interfaces' = interfaces
                ELSE LET class_name == interface_name(constant_pool, r.res.val)
                     IN  IF class_name.tag # "Ok" THEN Return(class_name) /\ interfaces' = interfaces
                         ELSE interfaces' = Append(interfaces, class_name.val) /\ Goto("interfaces")
    /\ UNCHANGED <<overflow_checks, header, poolv, classv, interfaces_len, fields_len, fields,
                   methods_len, methods>>

\* get_interfaces returned; parse_fields: `let len = read_u16(f)?;`
ReadFieldsCount ==
    /\ pc = "interfaces"
    /\ Running
    /\ Len(interfaces) = interfaces_len
    /\ \E buf \in Ahead({U16Bytes(x) : x \in CountInputs}) :
         LET r == read_u16(File(buf))
         IN  /\ Whole(r, buf)
             /\ Advance(r)
             /\ IF r.res.tag # "Ok" THEN Return(r.res) /\ fields_len' = fields_len
                ELSE fields_len' = r.res.val /\ Goto("fields")
    /\ UNCHANGED <<overflow_checks, header, poolv, classv, interfaces_len, interfaces, fields,
                   methods_len, methods>>

\* parse_fields: one turn of `for _ in 0..len { result.push(parse_field(f)?) }`
ParseField ==
    /\ pc = "fields"
    /\ Running
    /\ Len(fields) < fields_len
    /\ \E buf \in Ahead(FieldInputs) :
         LET r == parse_field(File(buf))
         IN  /\ Whole(r, buf)
             /\ Advance(r)
             /\ IF r.res.tag # "Ok" THEN Return(r.res) /\ fields' = fields
                ELSE fields' = Append(fields, r.res.val) /\ Goto("fields")
    /\ UNCHANGED <<overflow_checks, header, poolv, classv, interfaces_len, interfaces, fields_len,
                   methods_len, methods>>

\* parse_fields returned; parse_methods: `let len = read_u16(f)?;`
ReadMethodsCount ==
    /\ pc = "fields"
    /\ Running
    /\ Len(fields) = fields_len
    /\ \E buf \in Ahead({U16Bytes(x) : x \in CountInputs}) :
         LET r == read_u16(File(buf))
         IN  /\ Whole(r, buf)
             /\ Advance(r)
             /\ IF r.res.tag # "Ok" THEN Return(r.res) /\ methods_len' = methods_len
                ELSE methods_len' = r.res.val /\ Goto("methods")
    /\ UNCHANGED <<overflow_checks, header, poolv, classv, interfaces_len, interfaces, fields_len,
                   fields, methods>>

\* parse_methods: one turn of `for _ in 0..len { result.push(parse_method(f)?) }`
ParseMethod ==
    /\ pc = "methods"
    /\ Running
    /\ Len(methods) < methods_len
    /\ \E buf \in Ahead(MethodInputs) :
         LET r == parse_method(File(buf))
         IN  /\ Whole(r, buf)
             /\ Advance(r)
             /\ IF r.res.tag # "Ok" THEN Return(r.res) /\ methods' = methods
                ELSE methods' = Append(methods, r.res.val) /\ Goto("methods")
    /\ UNCHANGED <<overflow_checks, header, poolv, classv, interfaces_len, interfaces, fields_len,
                   fields, methods_len>>

\* the Class from_file builds from its locals
Class(attributes) ==
    [java_version |-> java_version, constant_pool |-> constant_pool,
     access_flags |-> access_flags, this_class |-> this_class, super_class |-> super_class,
     interfaces |-> interfaces, fields |-> fields, methods |-> methods,
     attributes |-> attributes]

\* parse_methods returned; `parse_attributes(&mut file)?` and `Ok(Self {..})`
ParseAttributes ==
    /\ pc = "methods"
    /\ Running
    /\ Len(methods) = methods_len
    /\ \E buf \in Ahead(AttributesInputs) :
         LET r == parse_attributes(File(buf))
         IN  /\ Whole(r, buf)
             /\ Advance(r)
             /\ IF r.res.tag # "Ok" THEN Return(r.res) ELSE Return(Ok(Class(r.res.val)))
    /\ UNCHANGED <<overflow_checks, header, poolv, classv, listv>>

Next ==
    \/ Open
    \/ ReadMagic
    \/ ReadVersion
    \/ ReadPoolCount
    \/ ParseConstant
    \/ ValidatePool
    \/ ReadAccessFlags
    \/ ReadThisClass
    \/ ReadSuperClass
    \/ ReadInterfacesCount
    \/ ReadInterface
    \/ ReadFieldsCount
    \/ ParseField
    \/ ReadMethodsCount
    \/ ParseMethod
    \/ ParseAttributes

Spec == Init /\ [][Next]_vars

(***************************************************************************)
(* parse_constant called on its own (it is a pub fn): the bytes ahead are  *)
(* drawn from all of ConstantInputs.                                       *)
(***************************************************************************)
InitDecode ==
    /\ pc = "parse_constant"
    /\ overflow_checks \in BOOLEAN
    /\ constant_pool = <<>>
    /\ Locals0

CallParseConstant ==
    /\ pc = "parse_constant"
    /\ \E buf \in Ahead(ConstantInputs) :
         LET r == parse_constant(File(buf), overflow_checks)
             t == read_u8(File(buf))
         IN  /\ Whole(r, buf)
             /\ Advance(r)
             /\ tag' = IF t.res.tag = "Ok" THEN t.res.val ELSE tag
             /\ result' = r.res
             /\ pc' = "returned"
    /\ UNCHANGED <<overflow_checks, header, constant_pool, validation, classv, listv>>

SpecDecode == InitDecode /\ [][CallParseConstant]_vars

(***************************************************************************)
(* validate_constant_pool called on its own (it is a pub fn).  The pools   *)
(* are BasePool, which has an entry of every variant and validates, with   *)
(* up to MaxEdits index fields, reference kinds or texts changed.          *)
(***************************************************************************)
BasePool ==
    << [tag |-> "UTF8String", text |-> <<60, 105, 110, 105, 116, 62>>],
       [tag |-> "UTF8String", text |-> <<97>>],
       [tag |-> "Class", name_index |-> 1],
       [tag |-> "NameAndType", name_index |-> 0, descriptor_index |-> 1],
       [tag |-> "Method", class_index |-> 2, name_and_type_index |-> 3],
       [tag |-> "MethodHandle", reference_kind |-> "NewInvokeSpecial", reference_index |-> 4],
       [tag |-> "Field", class_index |-> 2, name_and_type_index |-> 3],
       [tag |-> "InterfaceMethod", class_index |-> 2, name_and_type_index |-> 3],
       [tag |-> "String", string_index |-> 1],
       [tag |-> "MethodType", descriptor_index |-> 1],
       [tag |-> "InvokeDynamic", bootstrap_method_attr_index |-> 0, name_and_type_index |-> 3],
       [tag |-> "Integer", value |-> -2],
       [tag |-> "Float", bits |-> <<16256, 0>>],
       [tag |-> "Long", bits |-> <<32768, 0, 0, 1>>],
       [tag |-> "Double", bits |-> <<16368, 0, 0, 0>>] >>

\* the values an index field is changed to: the positions of a UTF8String, a
\* Class, a NameAndType, a Method, a Field and an InterfaceMethod, and the position
\* past the end
IndexValues == {0, 2, 3, 4, 6, 7, Len(BasePool)}

IndexFields ==
    {"name_index", "class_index", "name_and_type_index", "string_index", "descriptor_index",
     "reference_index", "bootstrap_method_attr_index"}

\* "<init>", "a", "<init", "<clinit>"
TextValues ==
    << <<60, 105, 110, 105, 116, 62>>, <<97>>, <<60, 105, 110, 105, 116>>,
       <<60, 99, 108, 105, 110, 105, 116, 62>> >>

\* the reference kinds a MethodHandle is changed to: one of each arm
KindValues == {1, 5, 8, 9}

\* an edit changes field fld of entry i: an index field to v, a reference kind to
\* MethodReferenceKind[v], a text to TextValues[v]
Edits ==
    {e \in [i : 1..Len(BasePool), fld : IndexFields \cup {"reference_kind", "text"}, v : 0..Len(BasePool)] :
        /\ e.fld \in DOMAIN BasePool[e.i]
        /\ CASE e.fld = "reference_kind" -> e.v \in KindValues
             [] e.fld = "text" -> e.v \in 1..Len(TextValues)
             [] OTHER -> e.v \in IndexValues}

Apply(pool, e) ==
    CASE e.fld = "reference_kind" -> [pool EXCEPT ![e.i].reference_kind = MethodReferenceKind[e.v]]
      [] e.fld = "text" -> [pool EXCEPT ![e.i].text = TextValues[e.v]]
      [] OTHER -> [pool EXCEPT ![e.i][e.fld] = e.v]

\* the pools that differ from pool by at most k edits
RECURSIVE Edited(_, _)
Edited(pool, k) ==
    IF k = 0 THEN {pool} ELSE {Apply(p, e) : p \in Edited(pool, k - 1), e \in Edits} \cup {pool}

InitValidate ==
    /\ pc = "validate_constant_pool"
    /\ overflow_checks = FALSE
    /\ constant_pool \in Edited(BasePool, MaxEdits)
    /\ Locals0

\* a faulty call: the pool is taken by value and drained by the loop
CallValidate_draining ==
    /\ pc = "validate_constant_pool"
    /\ validation' = validate_constant_pool(constant_pool)
    /\ constant_pool' = << >>
    /\ pc' = "returned"
    /\ UNCHANGED <<overflow_checks, io, header, tag, classv, listv, result>>

\* the pool is borrowed (`&[Constant]`): the call leaves it as it is
CallValidate ==
    /\ pc = "validate_constant_pool"
    /\ validation' = validate_constant_pool(constant_pool)
    /\ pc' = "returned"
    /\ UNCHANGED <<overflow_checks, io, header, tag, constant_pool, classv, listv, result>>

\* validate_constant_pool called once more on the same pool; the outcome of
\* this call is kept in result
CallValidateAgain ==
    /\ pc = "returned"
    /\ result' = validate_constant_pool(constant_pool)
    /\ pc' = "returned_again"
    /\ UNCHANGED <<overflow_checks, io, header, poolv, classv, listv>>

SpecValidate == InitValidate /\ [][CallValidate \/ CallValidateAgain]_vars

(***************************************************************************)
(* Properties of Class::from_file (Spec)                                   *)
(***************************************************************************)
\* from_file has returned an Err with this error
Failed(error) == result.tag = "Err" /\ result.err = error

\* the u16 a two-byte chunk encodes
Word(bytes) == (bytes[1] * 256) + bytes[2]

\* text is the name of a Class entry of the pool
NamesAClass(pool, text) ==
    \E c \in 1..Len(pool) :
        /\ pool[c].tag = "Class"
        /\ pool[c].name_index < Len(pool)
        /\ pool[pool[c].name_index + 1].tag = "UTF8String"
        /\ pool[pool[c].name_index + 1].text = text

\* every stage of from_file succeeded on the input
EveryStageSucceeded ==
    /\ magic = <<51966, 47806>>
    /\ constant_pool_count >= 1
    /\ Len(constant_pool) = constant_pool_count - 1
    /\ validation.tag = "Ok"
    /\ validate_constant_pool(constant_pool).tag = "Ok"
    /\ BitsOf(access_flags) \subseteq ClassAccessFlags
    /\ Len(interfaces) = interfaces_len
    /\ \A k \in 1..Len(interfaces) : NamesAClass(constant_pool, interfaces[k])
    /\ Len(fields) = fields_len
    /\ Len(methods) = methods_len
    /\ ~truncated

\* C3: from_file returns Ok(Class) only if every stage succeeded (magic, all
\* announced constants, pool validation, class flags, interfaces, fields,
\* methods, attributes), the Class being the one built from all of them; a
\* return that is not Ok carries no Class value at all.
C3_ClassOnlyIfEveryStageSucceeded ==
    /\ result.tag = "Ok" =>
          /\ EveryStageSucceeded
          /\ result.val.constant_pool = constant_pool
          /\ result.val.interfaces = interfaces
          /\ result.val.fields = fields
          /\ result.val.methods = methods
    /\ result.tag # "Ok" => "val" \notin DOMAIN result

\* a Class was returned for an input with a constant pool, an interface, a
\* field and a method
C3_Witness ==
    /\ result.tag = "Ok"
    /\ Len(result.val.constant_pool) = 2
    /\ Len(result.val.interfaces) = 1
    /\ Len(result.val.fields) = 1
    /\ Len(result.val.methods) = 1

\* C4: when the first four bytes were read and are not 0xCAFEBABE, from_file
\* has failed with InvalidMagicNumber at the magic stage, and exactly four
\* bytes of the stream have been consumed.
C4_InvalidMagicAfterFourBytes ==
    (consumed >= 4 /\ magic # <<51966, 47806>>) =>
        /\ Failed("InvalidMagicNumber")
        /\ consumed = 4
        /\ pc = "magic"

\* the magic number 0xCAFE0000 was refused
C4_Witness ==
    /\ magic = <<51966, 0>>
    /\ Failed("InvalidMagicNumber")
    /\ consumed = 4

\* C7: when a read found fewer bytes left in the stream than the field or
\* declared length it was reading, at whatever stage, from_file has failed
\* with IoError: it did not panic and returned no data.
C7_TruncatedIsIoError == truncated => Failed("IoError")

\* the stream ended inside a UTF8 entry that declared one byte
C7_Witness ==
    /\ truncated
    /\ pc = "constants"
    /\ chunk = <<1, 0, 1>>
    /\ Failed("IoError")

\* C8: once the announced constant_pool_count N_raw was read, the pool never
\* holds more than N_raw - 1 constants, and once from_file is past the pool
\* it holds exactly N_raw - 1, for every N_raw, 0 included.
C8_PoolHoldsCountMinusOne ==
    consumed >= 10 =>
        /\ Len(constant_pool) <= constant_pool_count - 1
        /\ pc \notin {"pool_count", "constants"} =>
              Len(constant_pool) = constant_pool_count - 1

\* C10: when from_file returned from the access-flags stage having read a
\* flag word with a bit outside the class-flag vocabulary, it returned the
\* typed error InvalidAccessFlags.
C10_UnknownClassFlagIsTypedError ==
    ( /\ pc = "access_flags"
      /\ ~Running
      /\ ~truncated
      /\ ~(BitsOf(Word(chunk)) \subseteq ClassAccessFlags) ) =>
        Failed("InvalidAccessFlags")

(***************************************************************************)
(* Properties of parse_constant (SpecDecode)                               *)
(***************************************************************************)
\* C5: when parse_constant returned having read a tag byte outside
\* {1, 3, 4, 5, 6, 7, 8, 9, 10, 11, 12, 15, 16, 18}, it returned the typed
\* error UnrecognizedConstantTag (and did not panic).
C5_UnknownTagIsTypedError ==
    ( /\ pc = "returned"
      /\ Len(chunk) >= 1
      /\ chunk[1] \notin {1, 3, 4, 5, 6, 7, 8, 9, 10, 11, 12, 15, 16, 18} ) =>
        Failed("UnrecognizedConstantTag")

\* the raw index fields of the constant the bytes encode, in stream order
RawIndexes(bytes) ==
    CASE bytes[1] \in {7, 8, 16} -> << Word(SubSeq(bytes, 2, 3)) >>
      [] bytes[1] = 15 -> << Word(SubSeq(bytes, 3, 4)) >>
      [] bytes[1] \in {9, 10, 11, 12, 18} ->
            << Word(SubSeq(bytes, 2, 3)), Word(SubSeq(bytes, 4, 5)) >>

\* the index fields of a decoded constant, in stream order
StoredIndexes(constant) ==
    CASE constant.tag = "Class" -> << constant.name_index >>
      [] constant.tag = "String" -> << constant.string_index >>
      [] constant.tag = "MethodType" -> << constant.descriptor_index >>
      [] constant.tag = "MethodHandle" -> << constant.reference_index >>
      [] constant.tag \in {"Field", "Method", "InterfaceMethod"} ->
            << constant.class_index, constant.name_and_type_index >>
      [] constant.tag = "NameAndType" -> << constant.name_index, constant.descriptor_index >>
      [] constant.tag = "InvokeDynamic" ->
            << constant.bootstrap_method_attr_index, constant.name_and_type_index >>

\* C9: when parse_constant returned without running out of bytes on a
\* constant that has index fields (a MethodHandle with a reference kind in
\* 1..9), it returned Ok, and every stored index field is the raw value
\* minus one, in 0..65534, for every raw value, 0 included.
C9_IndexIsRawMinusOne ==
    ( /\ pc = "returned"
      /\ ~truncated
      /\ Len(chunk) >= 1
      /\ chunk[1] \in {7, 8, 9, 10, 11, 12, 15, 16, 18}
      /\ chunk[1] = 15 => chunk[2] \in 1..9 ) =>
        /\ result.tag = "Ok"
        /\ Len(StoredIndexes(result.val)) = Len(RawIndexes(chunk))
        /\ \A k \in 1..Len(RawIndexes(chunk)) :
              /\ StoredIndexes(result.val)[k] = RawIndexes(chunk)[k] - 1
              /\ StoredIndexes(result.val)[k] \in 0..65534

(***************************************************************************)
(* Properties of validate_constant_pool (SpecValidate).  The table of the  *)
(* cross-reference relations is written out here as data: the index field, *)
(* the variant it must resolve to, and the sub-error that names the entry  *)
(* kind and the relation.                                                  *)
(***************************************************************************)
Relation(fld, variant, error) == [fld |-> fld, variant |-> variant, error |-> error]

\* the variant a MethodHandle of this kind must refer to
HandleTarget(kind) ==
    CASE kind \in {"GetField", "GetStatic", "PutField", "PutStatic"} -> "Field"
      [] kind \in {"InvokeVirtual", "InvokeStatic", "InvokeSpecial", "NewInvokeSpecial"} ->
            "Method"
      [] kind = "InvokeInterface" -> "InterfaceMethod"

\* the relations of an entry, in the order of the table
Relations(c) ==
    CASE c.tag = "Class" ->
            << Relation("name_index", "UTF8String", "ClassWithInvalidNameIndex") >>
      [] c.tag = "Field" ->
            << Relation("class_index", "Class", "FieldWithInvalidClassIndex"),
               Relation("name_and_type_index", "NameAndType",
                        "FieldWithInvalidNameAndTypeIndex") >>
      [] c.tag = "Method" ->
            << Relation("class_index", "Class", "MethodWithInvalidClassIndex"),
               Relation("name_and_type_index", "NameAndType",
                        "MethodWithInvalidNameAndTypeIndex") >>
      [] c.tag = "InterfaceMethod" ->
            << Relation("class_index", "Class", "InterfaceMethodWithInvalidClassIndex"),
               Relation("name_and_type_index", "NameAndType",
                        "InterfaceMethodWithInvalidNameAndTypeIndex") >>
      [] c.tag = "String" ->
            << Relation("string_index", "UTF8String", "StringWithInvalidUTF8Index") >>
      [] c.tag = "NameAndType" ->
            << Relation("name_index", "UTF8String", "NameAndTypeWithInvalidNameIndex"),
               Relation("descriptor_index", "UTF8String",
                        "NameAndTypeWithInvalidDescriptorIndex") >>
      [] c.tag = "MethodType" ->
            << Relation("descriptor_index", "UTF8String",
                        "MethodTypeWithInvalidDescriptorIndex") >>
      [] c.tag = "InvokeDynamic" ->
            << Relation("name_and_type_index", "NameAndType",
                        "InvokeDynamicWithInvalidNameAndType") >>
      [] c.tag = "MethodHandle" ->
            << Relation("reference_index", HandleTarget(c.reference_kind),
                        "InvalidMethodHandle") >>
      [] OTHER -> << >>

\* the index field of the relation resolves to an entry of another variant
WrongVariant(pool, c, rel) ==
    /\ c[rel.fld] < Len(pool)
    /\ pool[c[rel.fld] + 1].tag # rel.variant

\* the name text of the Method a handle refers to, through the Method's
\* name_and_type_index and the NameAndType's name_index
HandleMethodName(pool, handle) ==
    pool[pool[pool[handle.reference_index + 1].name_and_type_index + 1].name_index + 1].text

\* the entry satisfies the table, and so does every entry it refers to
RECURSIVE WellFormed(_, _)
RelationHolds(pool, c, rel) ==
    /\ c[rel.fld] < Len(pool)
    /\ pool[c[rel.fld] + 1].tag = rel.variant
    /\ WellFormed(pool, pool[c[rel.fld] + 1])

WellFormed(pool, c) ==
    /\ \A k \in 1..Len(Relations(c)) : RelationHolds(pool, c, Relations(c)[k])
    /\ (c.tag = "MethodHandle" /\ c.reference_kind = "NewInvokeSpecial") =>
          HandleMethodName(pool, c) = <<60, 105, 110, 105, 116, 62>>

\* relation k of entry i is the first violation validate_constant_pool comes to:
\* the entries before i and the relations of i before k are satisfied
FirstViolation(pool, i, k) ==
    /\ \A j \in 1..(i - 1) : WellFormed(pool, pool[j])
    /\ \A m \in 1..(k - 1) : RelationHolds(pool, pool[i], Relations(pool[i])[m])

\* C1 as written: for every entry with an index field that resolves to an
\* entry of another variant than the table requires, validate_constant_pool
\* returns an error carrying the sub-error of that entry kind and relation.
C1_EveryWrongVariantIsReported ==
    pc = "returned" =>
        \A i \in 1..Len(constant_pool) :
            \A k \in 1..Len(Relations(constant_pool[i])) :
                WrongVariant(constant_pool, constant_pool[i], Relations(constant_pool[i])[k]) =>
                    /\ validation.tag = "Err"
                    /\ validation.err = Relations(constant_pool[i])[k].error

\* C1 amended: for every such entry validate_constant_pool never returns Ok,
\* and it returns the sub-error of that entry kind and relation when the
\* relation is the first violation it comes to.
C1_FirstWrongVariantIsReported ==
    pc = "returned" =>
        \A i \in 1..Len(constant_pool) :
            \A k \in 1..Len(Relations(constant_pool[i])) :
                WrongVariant(constant_pool, constant_pool[i], Relations(constant_pool[i])[k]) =>
                    /\ validation.tag # "Ok"
                    /\ FirstViolation(constant_pool, i, k) =>
                          /\ validation.tag = "Err"
                          /\ validation.err = Relations(constant_pool[i])[k].error

\* the Field entry's name_and_type_index resolves to a Class, its class_index
\* holds, and the pool was refused with FieldWithInvalidNameAndTypeIndex
C1_Witness ==
    /\ pc = "returned"
    /\ constant_pool[7].tag = "Field"
    /\ WrongVariant(constant_pool, constant_pool[7], Relations(constant_pool[7])[2])
    /\ FirstViolation(constant_pool, 7, 2)
    /\ validation.tag = "Err"
    /\ validation.err = "FieldWithInvalidNameAndTypeIndex"

\* C2: validate_constant_pool returns Ok or an Err for every pool, whatever
\* the index fields hold: it never panics.
C2_ValidateIsTotal == pc = "returned" => validation.tag \in {"Ok", "Err"}

\* entry i is a NewInvokeSpecial handle that refers to a Method that validates
InitHandle(pool, i) ==
    /\ pool[i].tag = "MethodHandle"
    /\ pool[i].reference_kind = "NewInvokeSpecial"
    /\ pool[i].reference_index < Len(pool)
    /\ pool[pool[i].reference_index + 1].tag = "Method"
    /\ validate_constant(pool[pool[i].reference_index + 1], pool).tag = "Ok"

\* C6: for a NewInvokeSpecial handle whose Method validates, validate_constant
\* returns Ok if and only if the Method's name text is exactly <init>, and
\* InvalidMethodHandle for every other text; the pool of a handle with
\* another text is never accepted.
C6_InitHandleIffNameIsInit ==
    \A i \in 1..Len(constant_pool) :
        InitHandle(constant_pool, i) =>
            LET r == validate_constant(constant_pool[i], constant_pool)
                name == HandleMethodName(constant_pool, constant_pool[i])
            IN  /\ r.tag = "Ok" <=> name = <<60, 105, 110, 105, 116, 62>>
                /\ name # <<60, 105, 110, 105, 116, 62>> =>
                      /\ r.tag = "Err"
                      /\ r.err = "InvalidMethodHandle"
                      /\ pc = "returned" => validation.tag # "Ok"

\* the handle's Method is named <init (no closing bracket) and the pool was
\* refused with InvalidMethodHandle
C6_Witness ==
    /\ pc = "returned"
    /\ InitHandle(constant_pool, 6)
    /\ HandleMethodName(constant_pool, constant_pool[6]) = <<60, 105, 110, 105, 116>>
    /\ validation.tag = "Err"
    /\ validation.err = "InvalidMethodHandle"

(***************************************************************************)
(* More properties of Class::from_file (Spec)                              *)
(***************************************************************************)
\* C11: with a pool that passed validate_constant_pool, get_interfaces never
\* panics: every interface class index read finds a Class entry and then a
\* UTF8String entry, inside the pool.
C11_InterfaceLookupNeverFails ==
    (pc = "interfaces" /\ validation.tag = "Ok") => result.tag # "Panic"

\* i designates a Class entry of the pool, read as a 0-based position (as
\* get_interfaces does) or as a 1-based one (as the file format does)
DesignatesClass(pool, i) ==
    \/ i < Len(pool) /\ pool[i + 1].tag = "Class"
    \/ i >= 1 /\ i <= Len(pool) /\ pool[i].tag = "Class"

\* C18: in every Class that from_file returns, this_class and super_class
\* designate Class entries of its constant_pool.
C18_ThisAndSuperDesignateClasses ==
    result.tag = "Ok" =>
        /\ DesignatesClass(result.val.constant_pool, result.val.this_class)
        /\ DesignatesClass(result.val.constant_pool, result.val.super_class)

(***************************************************************************)
(* More properties of validate_constant_pool (SpecValidate)                *)
(***************************************************************************)
\* the positions the index fields of entry i hold, inside the pool
\* (bootstrap_method_attr_index is a position in another table)
RefersTo(pool, i) ==
    {pool[i][fld] + 1 :
        fld \in {f \in DOMAIN pool[i] \ {"tag", "reference_kind", "bootstrap_method_attr_index",
                                         "text", "value", "bits"} :
                    pool[i][f] < Len(pool)}}

\* the positions reached from the set S in at most n steps
RECURSIVE Reached(_, _, _)
Reached(pool, S, n) ==
    IF n = 0 THEN S
    ELSE Reached(pool, S \cup UNION {RefersTo(pool, j) : j \in S}, n - 1)

\* an entry refers to itself, directly or through a chain of index fields
SelfReferring(pool) ==
    \E i \in 1..Len(pool) : i \in Reached(pool, RefersTo(pool, i), Len(pool))

\* C12 as written: the validation call does not return on a pool in which an
\* entry refers to itself, directly or through a chain of index fields.
C12_SelfReferenceNeverReturns == pc = "returned" => ~SelfReferring(constant_pool)

\* C12 amended: the validation call returns on every pool, self-referring
\* ones included: validate_constant is never nested more than 4 calls deep
\* (MethodHandle, Method, Class, UTF8String), and a pool with a self-referring
\* entry is refused (with a sub-error, or by the panic of an index past the
\* end) instead.
C12_RecursionIsBounded ==
    /\ \A i \in 1..Len(constant_pool) : depth(constant_pool[i], constant_pool, MaxFrames) <= 4
    /\ (pc = "returned" /\ SelfReferring(constant_pool)) => validation.tag \in {"Err", "Panic"}

\* the Class entry's name_index is its own position, and the call returned
\* ClassWithInvalidNameIndex
C12_Witness ==
    /\ pc = "returned"
    /\ constant_pool[3].tag = "Class"
    /\ constant_pool[3].name_index = 2
    /\ validation.tag = "Err"
    /\ validation.err = "ClassWithInvalidNameIndex"

FieldParsed ==
    /\ pc = "fields"
    /\ \/ ~Running /\ Len(fields) < fields_len
       \/ Running /\ Len(fields) >= 1

\* parse_method has just returned: chunk holds the bytes it consumed
MethodParsed ==
    /\ pc = "methods"
    /\ \/ ~Running /\ Len(methods) < methods_len
       \/ Running /\ Len(methods) >= 1

\* the record's flag word was read and has a bit outside the vocabulary
UnknownFlagBit(vocabulary) ==
    /\ Len(chunk) >= 2
    /\ ~(BitsOf(Word(SubSeq(chunk, 1, 2))) \subseteq vocabulary)

\* C14: a field (method) record whose flag word has a bit outside the field
\* (method) vocabulary ends the parse with FieldParseError::InvalidAccessFlags
\* (MethodParseError::InvalidAccessFlags), and only the two bytes of the flag
\* word were consumed: name_index, descriptor_index and the attributes were
\* not read.
C14_UnknownMemberFlagIsTypedError ==
    /\ (FieldParsed /\ UnknownFlagBit(FieldAccessFlags)) =>
          Failed("FieldParseError::InvalidAccessFlags") /\ Len(chunk) = 2
    /\ (MethodParsed /\ UnknownFlagBit(MethodAccessFlags)) =>
          Failed("MethodParseError::InvalidAccessFlags") /\ Len(chunk) = 2

\* a method record with the flag word 0x8001 was refused, after a field was read
C14_Witness ==
    /\ MethodParsed
    /\ Len(fields) = 1
    /\ chunk = <<128, 1>>
    /\ Failed("MethodParseError::InvalidAccessFlags")

(***************************************************************************)
(* More properties of parse_constant (SpecDecode)                          *)
(***************************************************************************)
\* C15: when parse_constant returned from a tag-15 constant whose sub-tag byte
\* was read, a sub-tag 1..9 never gives InvalidMethodHandleReferenceKind and a
\* decoded handle has the kind at that place in the order GetField, GetStatic,
\* PutField, PutStatic, InvokeVirtual, InvokeStatic, InvokeSpecial,
\* NewInvokeSpecial, InvokeInterface; every other sub-tag gives
\* InvalidMethodHandleReferenceKind with only the tag and the sub-tag consumed.
C15_ReferenceKindMapping ==
    (pc = "returned" /\ Len(chunk) >= 2 /\ chunk[1] = 15) =>
        IF chunk[2] \in 1..9
        THEN /\ ~Failed("InvalidMethodHandleReferenceKind")
             /\ result.tag = "Ok" =>
                   result.val.reference_kind =
                       << "GetField", "GetStatic", "PutField", "PutStatic", "InvokeVirtual",
                          "InvokeStatic", "InvokeSpecial", "NewInvokeSpecial",
                          "InvokeInterface" >>[chunk[2]]
             /\ (~truncated /\ Word(SubSeq(chunk, 3, 4)) >= 1) => result.tag = "Ok"
        ELSE /\ Failed("InvalidMethodHandleReferenceKind")
             /\ Len(chunk) = 2

\* sub-tag 9 was decoded as InvokeInterface
C15_Witness ==
    /\ pc = "returned"
    /\ chunk = <<15, 9, 0, 1>>
    /\ result.tag = "Ok"
    /\ result.val.reference_kind = "InvokeInterface"

(***************************************************************************)
(* class.rs: Class::from_file as one function of the file, for a file      *)
(* that is given whole.  The value is [res, f] as for the parsers.         *)
(***************************************************************************)
\* `for _ in 0..constant_pool_len { constant_pool.push(parse_constant(..)?) }`
RECURSIVE parse_constants(_, _, _, _)
parse_constants(f, left, pool, checks) ==
    IF left = 0 THEN [res |-> Ok(pool), f |-> f]
    ELSE try(parse_constant(f, checks), LAMBDA c :
             parse_constants(c.f, left - 1, Append(pool, c.res.val), checks))

\* `constant_pool::validate_constant_pool(&constant_pool)?`
validated(pool) ==
    IF validate_constant_pool(pool.res.val).tag = "Err"
    THEN with(pool, ErrSub("ConstantPoolValidationError",
                           validate_constant_pool(pool.res.val).err))
    ELSE with(pool, validate_constant_pool(pool.res.val))

\* `ClassAccessFlags::from_bits(read_u16(&mut file)?).unwrap()`
read_class_flags(f) ==
    try(read_u16(f), LAMBDA bits :
        IF from_bits(bits.res.val, ClassAccessFlags).tag = "None"
        THEN with(bits, Panic("called Option::unwrap() on a None value"))
        ELSE with(bits, Ok(from_bits(bits.res.val, ClassAccessFlags).val)))

\* get_interfaces: `for _ in 0..len`
RECURSIVE interfaces_loop(_, _, _, _)
interfaces_loop(f, left, names, pool) ==
    IF left = 0 THEN [res |-> Ok(names), f |-> f]
    ELSE try(read_u16(f), LAMBDA class_index :
             IF interface_name(pool, class_index.res.val).tag # "Ok"
             THEN with(class_index, interface_name(pool, class_index.res.val))
             ELSE interfaces_loop(class_index.f, left - 1,
                                  Append(names,
                                         interface_name(pool, class_index.res.val).val),
                                  pool))

get_interfaces(f, pool) ==
    try(read_u16(f), LAMBDA len : interfaces_loop(len.f, len.res.val, <<>>, pool))

\* parse_fields and parse_methods: `for _ in 0..len { v.push(parse_field(f)?) }`
RECURSIVE parse_member_loop(_, _, _, _, _)
parse_member_loop(f, left, members, vocabulary, error) ==
    IF left = 0 THEN [res |-> Ok(members), f |-> f]
    ELSE try(parse_member(f, vocabulary, error), LAMBDA m :
             parse_member_loop(m.f, left - 1, Append(members, m.res.val), vocabulary, error))

parse_fields(f) ==
    try(read_u16(f), LAMBDA len :
        parse_member_loop(len.f, len.res.val, <<>>, FieldAccessFlags,
                          "FieldParseError::InvalidAccessFlags"))

parse_methods(f) ==
    try(read_u16(f), LAMBDA len :
        parse_member_loop(len.f, len.res.val, <<>>, MethodAccessFlags,
                          "MethodParseError::InvalidAccessFlags"))

\* from_file after the constant pool was validated
from_file_body(f, java_version_, constant_pool_) ==
    try(read_class_flags(f), LAMBDA access_flags_ :
    try(read_u16(access_flags_.f), LAMBDA this_class_ :
    try(read_u16(this_class_.f), LAMBDA super_class_ :
    try(get_interfaces(super_class_.f, constant_pool_), LAMBDA interfaces_ :
    try(parse_fields(interfaces_.f), LAMBDA fields_ :
    try(parse_methods(fields_.f), LAMBDA methods_ :
    try(parse_attributes(methods_.f), LAMBDA attributes_ :
        with(attributes_,
             Ok([java_version |-> java_version_,
                 constant_pool |-> constant_pool_,
                 access_flags |-> access_flags_.res.val,
                 this_class |-> this_class_.res.val,
                 super_class |-> super_class_.res.val,
                 interfaces |-> interfaces_.res.val,
                 fields |-> fields_.res.val,
                 methods |-> methods_.res.val,
                 attributes |-> attributes_.res.val])))))))))

from_file(f, overflow_checks_) ==
    try(read_u32(f), LAMBDA m :
        IF magic_differs(m.res.val) THEN with(m, Err("InvalidMagicNumber"))
        ELSE try(read_n_dyn(m.f, 4), LAMBDA version_bytes :
             try(read_index(version_bytes.f, overflow_checks_), LAMBDA constant_pool_len_ :
             try(parse_constants(constant_pool_len_.f, constant_pool_len_.res.val, <<>>,
                                 overflow_checks_), LAMBDA pool :
             try(validated(pool), LAMBDA v :
                 from_file_body(v.f, JavaVersion_parse(version_bytes.res.val),
                                pool.res.val))))))

(***************************************************************************)
(* The fixture of tests/parse_class.rs.  FixtureClass is the Class the     *)
(* test expects; the file tests/Main.class is the class file that holds    *)
(* exactly this content, laid out as from_file reads it.                   *)
(***************************************************************************)
FixtureClass ==
    [java_version |-> [minor |-> 0, major |-> 63],
     constant_pool |->
        << [tag |-> "Method", class_index |-> 1, name_and_type_index |-> 2],
           [tag |-> "Class", name_index |-> 3],
           [tag |-> "NameAndType", name_index |-> 4, descriptor_index |-> 5],
           [tag |-> "UTF8String", text |-> <<106, 97, 118, 97, 47, 108, 97, 110, 103, 47, 79, 98,
               106, 101, 99, 116>>],
           [tag |-> "UTF8String", text |-> <<60, 105, 110, 105, 116, 62>>],
           [tag |-> "UTF8String", text |-> <<40, 41, 86>>],
           [tag |-> "Field", class_index |-> 7, name_and_type_index |-> 8],
           [tag |-> "Class", name_index |-> 9],
           [tag |-> "NameAndType", name_index |-> 10, descriptor_index |-> 11],
           [tag |-> "UTF8String", text |-> <<77, 97, 105, 110>>],
           [tag |-> "UTF8String", text |-> <<97>>],
           [tag |-> "UTF8String", text |-> <<73>>],
           [tag |-> "Field", class_index |-> 13, name_and_type_index |-> 14],
           [tag |-> "Class", name_index |-> 15],
           [tag |-> "NameAndType", name_index |-> 16, descriptor_index |-> 17],
           [tag |-> "UTF8String", text |-> <<106, 97, 118, 97, 47, 108, 97, 110, 103, 47, 83,
               121, 115, 116, 101, 109>>],
           [tag |-> "UTF8String", text |-> <<111, 117, 116>>],
           [tag |-> "UTF8String", text |-> <<76, 106, 97, 118, 97, 47, 105, 111, 47, 80, 114,
               105, 110, 116, 83, 116, 114, 101, 97, 109, 59>>],
           [tag |-> "String", string_index |-> 19],
           [tag |-> "UTF8String", text |-> <<72, 101, 108, 108, 111, 32, 87, 111, 114, 108, 100,
               33>>],
           [tag |-> "Method", class_index |-> 21, name_and_type_index |-> 22],
           [tag |-> "Class", name_index |-> 23],
           [tag |-> "NameAndType", name_index |-> 24, descriptor_index |-> 25],
           [tag |-> "UTF8String", text |-> <<106, 97, 118, 97, 47, 105, 111, 47, 80, 114, 105,
               110, 116, 83, 116, 114, 101, 97, 109>>],
           [tag |-> "UTF8String", text |-> <<112, 114, 105, 110, 116, 108, 110>>],
           [tag |-> "UTF8String", text |-> <<40, 76, 106, 97, 118, 97, 47, 108, 97, 110, 103, 47,
               83, 116, 114, 105, 110, 103, 59, 41, 86>>],
           [tag |-> "UTF8String", text |-> <<67, 111, 100, 101>>],
           [tag |-> "UTF8String", text |-> <<76, 105, 110, 101, 78, 117, 109, 98, 101, 114, 84,
               97, 98, 108, 101>>],
           [tag |-> "UTF8String", text |-> <<109, 97, 105, 110>>],
           [tag |-> "UTF8String", text |-> <<40, 91, 76, 106, 97, 118, 97, 47, 108, 97, 110, 103,
               47, 83, 116, 114, 105, 110, 103, 59, 41, 86>>],
           [tag |-> "UTF8String", text |-> <<83, 111, 117, 114, 99, 101, 70, 105, 108, 101>>],
           [tag |-> "UTF8String", text |-> <<77, 97, 105, 110, 46, 106, 97, 118, 97>>] >>,
     access_flags |-> 33,
     this_class |-> 8,
     super_class |-> 2,
     interfaces |-> << >>,
     fields |->
        << [access_flags |-> 1, name_index |-> 11, descriptor_index |-> 12,
            attributes |-> << >>] >>,
     methods |->
        << [access_flags |-> 1, name_index |-> 5, descriptor_index |-> 6,
            attributes |->
               << [attribute_name_index |-> 27,
                   info |-> <<0, 2, 0, 1, 0, 0, 0, 10, 42, 183, 0, 1, 42, 4, 181, 0, 7, 177, 0,
                       0, 0, 1, 0, 28, 0, 0, 0, 10, 0, 2, 0, 0, 0, 1, 0, 4, 0, 2>>] >>],
           [access_flags |-> 9, name_index |-> 29, descriptor_index |-> 30,
            attributes |->
               << [attribute_name_index |-> 27,
                   info |-> <<0, 2, 0, 1, 0, 0, 0, 9, 178, 0, 13, 18, 19, 182, 0, 21, 177, 0, 0,
                       0, 1, 0, 28, 0, 0, 0, 10, 0, 2, 0, 0, 0, 4, 0, 8, 0, 5>>] >>] >>,
     attributes |-> << [attribute_name_index |-> 31, info |-> <<0, 32>>] >>]

\* the layout of a class file, as from_file reads it
RECURSIVE Flatten(_)
Flatten(chunks) == IF chunks = <<>> THEN <<>> ELSE Head(chunks) \o Flatten(Tail(chunks))

ConstantBytes(c) ==
    CASE c.tag = "UTF8String" -> <<1>> \o U16Bytes(Len(c.text)) \o c.text
      [] c.tag = "Class" -> <<7>> \o U16Bytes(c.name_index + 1)
      [] c.tag = "String" -> <<8>> \o U16Bytes(c.string_index + 1)
      [] c.tag = "Field" ->
           <<9>> \o U16Bytes(c.class_index + 1) \o U16Bytes(c.name_and_type_index + 1)
      [] c.tag = "Method" ->
           <<10>> \o U16Bytes(c.class_index + 1) \o U16Bytes(c.name_and_type_index + 1)
      [] c.tag = "NameAndType" ->
           <<12>> \o U16Bytes(c.name_index + 1) \o U16Bytes(c.descriptor_index + 1)

AttributeBytes(a) == U16Bytes(a.attribute_name_index) \o U32Bytes(<<0, Len(a.info)>>) \o a.info

AttributesBytes(attributes) ==
    U16Bytes(Len(attributes))
        \o Flatten([i \in 1..Len(attributes) |-> AttributeBytes(attributes[i])])

MemberBytes(m) ==
    U16Bytes(m.access_flags) \o U16Bytes(m.name_index) \o U16Bytes(m.descriptor_index)
        \o AttributesBytes(m.attributes)

MembersBytes(members) ==
    U16Bytes(Len(members)) \o Flatten([i \in 1..Len(members) |-> MemberBytes(members[i])])

\* a class that implements no interface
ClassBytes(class) ==
    U32Bytes(MAGIC)
        \o U16Bytes(class.java_version.minor) \o U16Bytes(class.java_version.major)
        \o U16Bytes(Len(class.constant_pool) + 1)
        \o Flatten([i \in 1..Len(class.constant_pool) |-> ConstantBytes(class.constant_pool[i])])
        \o U16Bytes(class.access_flags)
        \o U16Bytes(class.this_class) \o U16Bytes(class.super_class)
        \o U16Bytes(0)
        \o MembersBytes(class.fields)
        \o MembersBytes(class.methods)
        \o AttributesBytes(class.attributes)

\* tests/Main.class
FixtureBytes == ClassBytes(FixtureClass)

(***************************************************************************)
(* from_file called on tests/Main.class, and on every file that is a       *)
(* beginning of it.  The locals of the staged model are not used here.     *)
(***************************************************************************)
InitFixture ==
    /\ pc = "from_file"
    /\ overflow_checks \in BOOLEAN
    /\ constant_pool = <<>>
    /\ Locals0

CallFromFile ==
    /\ pc = "from_file"
    /\ \E buf \in Cuts(FixtureBytes) :
         LET r == from_file(File(buf), overflow_checks)
         IN  /\ Advance(r)
             /\ result' = r.res
    /\ pc' = "from_file_returned"
    /\ UNCHANGED <<overflow_checks, header, poolv, classv, listv>>

SpecFixture == InitFixture /\ [][CallFromFile]_vars

\* from_file was given the whole of tests/Main.class
WholeFixture == pc = "from_file_returned" /\ chunk = FixtureBytes

\* C16 as stated: the whole fixture parses to the golden structure, whose
\* constant pool has 31 entries.
C16_FixturePoolHas31Entries ==
    WholeFixture =>
        /\ result = Ok(FixtureClass)
        /\ Len(result.val.constant_pool) = 31

\* C16: the whole fixture parses to the golden structure: version 63.0, a
\* constant pool of 32 entries (the count field is 33), one field, two
\* methods and one class attribute, equal to the expected Class in every
\* tag, index, flag word and attribute byte.
C16_FixtureParsesToGolden ==
    WholeFixture =>
        /\ result = Ok(FixtureClass)
        /\ result.val.java_version = [minor |-> 0, major |-> 63]
        /\ Len(result.val.constant_pool) = 32
        /\ Len(result.val.fields) = 1
        /\ Len(result.val.methods) = 2
        /\ Len(result.val.attributes) = 1
        /\ result.val.interfaces = <<>>

C16_Witness ==
    /\ WholeFixture
    /\ ~truncated
    /\ result.tag = "Ok"
    /\ consumed = Len(FixtureBytes)
    /\ Len(result.val.methods[2].attributes[1].info) > 0

(***************************************************************************)
(* The traversal order of validate_constant_pool (SpecValidate)            *)
(***************************************************************************)
\* the relation is violated at the entry itself: its index field is past the
\* end of the pool, or resolves to an entry of another variant
Violated(pool, c, rel) ==
    \/ c[rel.fld] >= Len(pool)
    \/ pool[c[rel.fld] + 1].tag # rel.variant

\* the sub-error of the first violation the traversal comes to from entry c
\* ("None" when there is none): the relations of c in the order of the
\* table, each followed into its referent before the next one, and the
\* <init> rule of a NewInvokeSpecial handle last
RECURSIVE Violation(_, _)
ViolationAt(pool, c, rel) ==
    IF Violated(pool, c, rel) THEN rel.error ELSE Violation(pool, pool[c[rel.fld] + 1])

Violation(pool, c) ==
    LET bad == {k \in 1..Len(Relations(c)) : ViolationAt(pool, c, Relations(c)[k]) # "None"}
    IN  IF bad # {}
        THEN ViolationAt(pool, c, Relations(c)[CHOOSE k \in bad : \A m \in bad : k <= m])
        ELSE IF /\ c.tag = "MethodHandle"
                /\ c.reference_kind = "NewInvokeSpecial"
                /\ HandleMethodName(pool, c) # <<60, 105, 110, 105, 116, 62>>
        THEN "InvalidMethodHandle"
        ELSE "None"

\* the sub-error of the first violation in pool position order
FirstReached(pool) ==
    LET bad == {i \in 1..Len(pool) : Violation(pool, pool[i]) # "None"}
    IN  IF bad = {} THEN "None"
        ELSE Violation(pool, pool[CHOOSE i \in bad : \A j \in bad : i <= j])

\* the violated relations of the pool, as <<entry, relation>>
ViolatedRelations(pool) ==
    {ik \in (1..Len(pool)) \X (1..2) :
        /\ ik[2] <= Len(Relations(pool[ik[1]]))
        /\ Violated(pool, pool[ik[1]], Relations(pool[ik[1]])[ik[2]])}

\* C17: when the pool has violated relations, validate_constant_pool returns
\* the sub-error of the first one its traversal reaches (entries in pool
\* position order, class_index and the Class it names before
\* name_and_type_index, name_index before descriptor_index), and a violation
\* inside a referent is reported with the referent's own sub-error.
C17_FirstReachedIsReturned ==
    (pc = "returned" /\ FirstReached(constant_pool) # "None") =>
        validation = Err(FirstReached(constant_pool))

\* every entry of the pool satisfies the table, with the entries it refers to
WellFormedPool(pool) == \A i \in 1..Len(pool) : WellFormed(pool, pool[i])

\* the entries that refer to position i (0-based) through a field of the table
Referrers(pool, i) ==
    {j \in 1..Len(pool) :
        \E k \in 1..Len(Relations(pool[j])) : pool[j][Relations(pool[j])[k].fld] = i}

ByteInputs == {0, 1, 127, 128, 255}
WideByteInputs == {0, 128, 255}

\* the arrays of the tests of big_endian.rs
TestArrays ==
    { <<202, 254>>, <<202, 254, 186, 190>>, <<202, 254, 186, 190, 202, 254, 186, 190>>,
      <<10, 254>>, <<10, 254, 186, 190>>, <<10, 206, 186, 190, 202, 254, 186, 190>> }

InitBigEndian ==
    /\ pc = "parse_big_endian"
    /\ overflow_checks = FALSE
    /\ constant_pool = <<>>
    /\ consumed = 0
    /\ truncated = FALSE
    /\ chunk \in [1..2 -> ByteInputs] \cup [1..4 -> ByteInputs] \cup [1..8 -> WideByteInputs]
                    \cup TestArrays
    /\ magic = <<0, 0>>
    /\ java_version = [minor |-> 0, major |-> 0]
    /\ constant_pool_count = 0
    /\ constant_pool_len = 0
    /\ tag = 0
    /\ validation = None
    /\ access_flags = 0
    /\ this_class = 0
    /\ super_class = 0
    /\ interfaces_len = 0
    /\ interfaces = <<>>
    /\ fields_len = 0
    /\ fields = <<>>
    /\ methods_len = 0
    /\ methods = <<>>
    /\ result = None

Parsed(values) ==
    /\ result' = values
    /\ pc' = "parsed"
    /\ UNCHANGED <<overflow_checks, io, header, poolv, classv, listv>>

ParseWidth2 ==
    /\ pc = "parse_big_endian"
    /\ Len(chunk) = 2
    /\ Parsed([unsigned |-> parse_big_endian_u16(chunk), signed |-> parse_big_endian_i16(chunk)])

ParseWidth4 ==
    /\ pc = "parse_big_endian"
    /\ Len(chunk) = 4
    /\ Parsed([unsigned |-> parse_big_endian_u32(chunk), signed |-> parse_big_endian_i32(chunk)])

ParseWidth8 ==
    /\ pc = "parse_big_endian"
    /\ Len(chunk) = 8
    /\ Parsed([unsigned |-> parse_big_endian_u64(chunk), signed |-> parse_big_endian_i64(chunk)])

SpecBigEndian == InitBigEndian /\ [][ParseWidth2 \/ ParseWidth4 \/ ParseWidth8]_vars

\* the bytes of a value given as 16-bit limbs, most significant first
LimbBytes(limbs) == Flatten([j \in 1..Len(limbs) |-> U16Bytes(limbs[j])])

\* the top bit of element 0 of the array
TopBit == chunk[1] >= 128

\* C20: for an array of 2, 4 or 8 bytes the unsigned variant returns the
\* integer whose bytes, most significant first, are the elements of the
\* array (b0 * 256 + b1 for two bytes), and the signed variant returns the
\* two's-complement reading of the same bits: equal to the unsigned value
\* modulo 2^width, in the signed range, and negative exactly when the top
\* bit of element 0 is set.
C20_BigEndianValues ==
    pc = "parsed" =>
        CASE Len(chunk) = 2 ->
                /\ result.unsigned = (chunk[1] * 256) + chunk[2]
                /\ U16Bytes(result.unsigned) = chunk
                /\ result.signed \in -32768..32767
                /\ result.signed % 65536 = result.unsigned
                /\ result.signed < 0 <=> TopBit
          [] Len(chunk) = 4 ->
                /\ LimbBytes(result.unsigned) = chunk
                /\ result.signed % 65536 = result.unsigned[2]
                /\ (result.signed \div 65536) % 65536 = result.unsigned[1]
                /\ (result.signed \div 65536) \in -32768..32767
                /\ result.signed < 0 <=> TopBit
          [] Len(chunk) = 8 ->
                /\ LimbBytes(result.unsigned) = chunk
                /\ result.signed[1] \in -32768..32767
                /\ result.signed[1] % 65536 = result.unsigned[1]
                /\ SubSeq(result.signed, 2, 4) = SubSeq(result.unsigned, 2, 4)
                /\ result.signed[1] < 0 <=> TopBit

\* the array [0x80, 0x01], whose element 0 has the top bit set, was parsed:
\* 32769 unsigned, -32767 signed
C20_Witness ==
    /\ pc = "parsed"
    /\ chunk = <<128, 1>>
    /\ result.unsigned = 32769
    /\ result.signed = -32767

====
